---- MODULE Spec2Model ----
(***************************************************************************)
(* Model of virtual_file_system.py: VirtualFile (a list of pages) and      *)
(* VirtualFileSystem (an insertion-ordered dict from file name to          *)
(* VirtualFile, plus page_size).  Strings are sequences of characters.     *)
(* Every method is an operator that returns the store after the call and   *)
(* the value returned (or the exception raised); every action applies one  *)
(* method to the store and records the call and its result in `last`.      *)
(***************************************************************************)
EXTENDS Integers, Sequences, FiniteSets

VARIABLES virtual_files, page_size, last

vars == <<virtual_files, page_size, last>>

(* ------------------------------ bounds --------------------------------- *)
MaxPageSize == 2
MaxLen == 3
MaxTotal == 3
MaxIdx == 2
MaxSurround == 2
MaxArgs == 3

Names == {"f", "g"}
\* a wider choice of names, so that a file can be renamed while another one exists
WideNames == Names \cup {"h"}
Alphabet == {"a", "b"}
None == "None"

RECURSIVE StrUpTo(_)
StrUpTo(n) ==
    IF n = 0 THEN {<<>>}
    ELSE LET S == StrUpTo(n - 1)
         IN  S \cup {Append(s, c) : s \in {t \in S : Len(t) = n - 1}, c \in Alphabet}

Contents == StrUpTo(MaxLen)
\* page indices: one negative index, and indices up to and past the last page
PageArgs == (0 - 1)..MaxIdx
SurroundArgs == 0..MaxSurround
\* read_file(..., include_surrounding=False, surrounding_chars=100)
DefaultSurroundingChars == 100
\* the (include_surrounding, surrounding_chars) pairs a caller passes
SurroundOptions ==
    {<<FALSE, DefaultSurroundingChars>>} \cup {<<TRUE, sc>> : sc \in SurroundArgs}

(* ------------------------- Python primitives --------------------------- *)
Min(a, b) == IF a < b THEN a ELSE b
Max(a, b) == IF a > b THEN a ELSE b

\* s[lo:hi] for lo, hi >= 0
PySlice(s, lo, hi) == SubSeq(s, Min(lo, Len(s)) + 1, Min(hi, Len(s)))

\* s[-n:] for n >= 0: the start index -n is 0 when n = 0, else len(s)-n clamped at 0
PyTail(s, n) ==
    LET start == IF n = 0 THEN 0 ELSE Max(Len(s) - n, 0)
    IN  SubSeq(s, start + 1, Len(s))

\* s[:n] for n >= 0
PyHead(s, n) == SubSeq(s, 1, Min(n, Len(s)))

\* position (0-based) that list[i] addresses in a list of length n; negative i counts from the end
PyNorm(i, n) == IF i < 0 THEN i + n ELSE i
\* list[i] raises IndexError unless the normalised position is inside the list
PyInRange(i, n) == PyNorm(i, n) >= 0 /\ PyNorm(i, n) < n
PyAt(l, i) == l[PyNorm(i, Len(l)) + 1]

\* "".join(pages)
RECURSIVE Join(_)
Join(pages) == IF pages = <<>> THEN <<>> ELSE Head(pages) \o Join(Tail(pages))

\* sum(len(page) for page in pages)
RECURSIVE SumLen(_)
SumLen(pages) == IF pages = <<>> THEN 0 ELSE Len(Head(pages)) + SumLen(Tail(pages))

\* len(range(0, n, step))
RangeLen(n, step) == (n + step - 1) \div step

(* ------------------------------ VirtualFile ---------------------------- *)
\* variant: every slice one character short, content[i:i+page_size-1]
Paginate_ShortSlice(content, ps) ==
    [k \in 1..RangeLen(Len(content), ps) |->
        PySlice(content, (k - 1) * ps, (k - 1) * ps + ps - 1)]

\* variant: range(0, max(len(content), 1), page_size), one empty page for empty content
Paginate_OneForEmpty(content, ps) ==
    [k \in 1..RangeLen(Max(Len(content), 1), ps) |->
        PySlice(content, (k - 1) * ps, (k - 1) * ps + ps)]

\* [content[i:i+page_size] for i in range(0, len(content), page_size)]
Paginate(content, ps) ==
    [k \in 1..RangeLen(Len(content), ps) |->
        PySlice(content, (k - 1) * ps, (k - 1) * ps + ps)]

VirtualFile(content, ps) == Paginate(content, ps)

(* ------------------------- the dict virtual_files ---------------------- *)
\* the dict is a sequence of entries in insertion order: the key `name`, the identity
\* `obj` of the VirtualFile object the key refers to, and that object's `pages`
KeysOf(vf) == [i \in 1..Len(vf) |-> vf[i].name]
Has(vf, n) == \E i \in 1..Len(vf) : vf[i].name = n
IndexOf(vf, n) == CHOOSE i \in 1..Len(vf) : vf[i].name = n
PagesOf(vf, n) == vf[IndexOf(vf, n)].pages
ObjOf(vf, n) == vf[IndexOf(vf, n)].obj
\* vf[n].pages = pages for a key that is present: the object is changed, and every
\* key that refers to the same object sees the change
SetPages(vf, n, pages) ==
    [i \in 1..Len(vf) |->
        IF vf[i].obj = ObjOf(vf, n) THEN [vf[i] EXCEPT !.pages = pages] ELSE vf[i]]
\* the identity of a newly constructed object: one that no key refers to
NewObj(vf) ==
    CHOOSE k \in 1..(Len(vf) + 1) :
        /\ \A i \in 1..Len(vf) : vf[i].obj # k
        /\ \A j \in 1..(k - 1) : \E i \in 1..Len(vf) : vf[i].obj = j
\* vf[n] = VirtualFile for a key that is absent: a new last entry
Insert(vf, n, pages) == Append(vf, [name |-> n, obj |-> NewObj(vf), pages |-> pages])
\* del vf[n] / vf.pop(n)
Remove(vf, n) ==
    LET i == IndexOf(vf, n)
    IN  SubSeq(vf, 1, i - 1) \o SubSeq(vf, i + 1, Len(vf))
\* vf[new] = vf.pop(old) for an absent key new: the object old referred to becomes
\* the last entry, under the key new
Rebind(vf, old, new) ==
    Append(Remove(vf, old), [vf[IndexOf(vf, old)] EXCEPT !.name = new])

(* ------------------------------ results -------------------------------- *)
\* what a call gives back: kind tells the message (or the exception raised),
\* the other fields carry the values the message or the disk write contains
Res(kind) ==
    [kind |-> kind, text |-> <<>>, pages |-> 0, size |-> 0, names |-> <<>>, written |-> <<>>]

Ret(vf, result) == [vfs |-> vf, result |-> result]

(* ------------------------- VirtualFileSystem methods ------------------- *)
\* the place of a name in name order (the order of the names as strings)
NameRank(n) == IF n = "f" THEN 1 ELSE IF n = "g" THEN 2 ELSE 3

\* variant: for file_name in sorted(self.virtual_files), the writes go in name order
dump_all_Sorted(vf, dump_directory) ==
    IF dump_directory = None
    THEN Ret(vf, Res("TypeError"))
    ELSE LET nth(i) ==
                 CHOOSE j \in 1..Len(vf) :
                     Cardinality({k \in 1..Len(vf) :
                         NameRank(vf[k].name) < NameRank(vf[j].name)}) = i - 1
         IN  Ret(vf, [Res("ok") EXCEPT !.written =
                 [i \in 1..Len(vf) |->
                     [path |-> <<dump_directory, vf[nth(i)].name>>,
                      content |-> Join(vf[nth(i)].pages)]]])

\* dump_all(self, dump_directory): one write per key, in the dict's order;
\* os.path.exists(None) raises TypeError before anything is written
dump_all(vf, dump_directory) ==
    IF dump_directory = None
    THEN Ret(vf, Res("TypeError"))
    ELSE Ret(vf, [Res("ok") EXCEPT !.written =
            [i \in 1..Len(vf) |->
                [path |-> <<dump_directory, vf[i].name>>, content |-> Join(vf[i].pages)]]])

\* variant: no existence check, an existing entry is overwritten
create_file_Overwrite(vf, ps, file_name, content) ==
    IF Has(vf, file_name)
    THEN Ret(SetPages(vf, file_name, VirtualFile(content, ps)), Res("ok"))
    ELSE Ret(Insert(vf, file_name, VirtualFile(content, ps)), Res("ok"))

create_file(vf, ps, file_name, content) ==
    IF Has(vf, file_name)
    THEN Ret(vf, Res("AlreadyExists"))
    ELSE Ret(Insert(vf, file_name, VirtualFile(content, ps)), Res("ok"))

\* variant: the text assembled with its surroundings is stored back as the page
read_file_Persisting(vf, file_name, page, include_surrounding, surrounding_chars) ==
    IF ~Has(vf, file_name) THEN Ret(vf, Res("NotFound"))
    ELSE LET pages == PagesOf(vf, file_name)
             n == Len(pages)
         IN  IF page >= n THEN Ret(vf, Res("InvalidPage"))
             ELSE IF ~PyInRange(page, n) THEN Ret(vf, Res("IndexError"))
             ELSE LET content == PyAt(pages, page)
                      prev_page == IF page > 0 THEN PyAt(pages, page - 1) ELSE <<>>
                      next_page == IF page < n - 1 THEN PyAt(pages, page + 1) ELSE <<>>
                      text == PyTail(prev_page, surrounding_chars) \o content
                                  \o PyHead(next_page, surrounding_chars)
                  IN  IF include_surrounding
                      THEN Ret(SetPages(vf, file_name,
                                        [pages EXCEPT ![PyNorm(page, n) + 1] = text]),
                               [Res("text") EXCEPT !.text = text])
                      ELSE Ret(vf, [Res("text") EXCEPT !.text = content])

read_file(vf, file_name, page, include_surrounding, surrounding_chars) ==
    IF ~Has(vf, file_name) THEN Ret(vf, Res("NotFound"))
    ELSE LET pages == PagesOf(vf, file_name)
             n == Len(pages)
         IN  IF page >= n THEN Ret(vf, Res("InvalidPage"))
             ELSE IF ~PyInRange(page, n) THEN Ret(vf, Res("IndexError"))
             ELSE LET content == PyAt(pages, page)
                      prev_page == IF page > 0 THEN PyAt(pages, page - 1) ELSE <<>>
                      next_page == IF page < n - 1 THEN PyAt(pages, page + 1) ELSE <<>>
                      prev_content ==
                          IF prev_page # <<>> THEN PyTail(prev_page, surrounding_chars) ELSE <<>>
                      next_content ==
                          IF next_page # <<>> THEN PyHead(next_page, surrounding_chars) ELSE <<>>
                  IN  IF include_surrounding
                      THEN Ret(vf, [Res("text") EXCEPT
                                      !.text = prev_content \o content \o next_content])
                      ELSE Ret(vf, [Res("text") EXCEPT !.text = content])

\* variant: every page is cut on its own, the pages are never joined
RECURSIVE PaginateEach(_, _)
PaginateEach(pages, ps) ==
    IF pages = <<>> THEN <<>>
    ELSE Paginate(Head(pages), ps) \o PaginateEach(Tail(pages), ps)

reorganize_pages_PerPage(vf, ps, file_name) ==
    IF ~Has(vf, file_name) THEN Ret(vf, Res("NotFound"))
    ELSE Ret(SetPages(vf, file_name, PaginateEach(PagesOf(vf, file_name), ps)), Res("ok"))

\* variant: the new pages are added to the old ones, file.pages.extend(...)
reorganize_pages_Extend(vf, ps, file_name) ==
    IF ~Has(vf, file_name) THEN Ret(vf, Res("NotFound"))
    ELSE LET content == Join(PagesOf(vf, file_name))
         IN  Ret(SetPages(vf, file_name, PagesOf(vf, file_name) \o Paginate(content, ps)),
                 Res("ok"))

\* variant: every file of the store is cut again, not only the named one
reorganize_pages_AllFiles(vf, ps, file_name) ==
    IF ~Has(vf, file_name) THEN Ret(vf, Res("NotFound"))
    ELSE Ret([i \in 1..Len(vf) |-> [vf[i] EXCEPT !.pages = Paginate(Join(vf[i].pages), ps)]],
             Res("ok"))

reorganize_pages(vf, ps, file_name) ==
    IF ~Has(vf, file_name) THEN Ret(vf, Res("NotFound"))
    ELSE LET content == Join(PagesOf(vf, file_name))
         IN  Ret(SetPages(vf, file_name, Paginate(content, ps)), Res("ok"))

\* variant: the page is replaced and the file is left as it is, no reorganize_pages
update_file_NoReorganize(vf, ps, file_name, page, new_content) ==
    IF ~Has(vf, file_name) THEN Ret(vf, Res("NotFound"))
    ELSE LET pages == PagesOf(vf, file_name)
             n == Len(pages)
         IN  IF page >= n THEN Ret(vf, Res("InvalidPage"))
             ELSE IF ~PyInRange(page, n) THEN Ret(vf, Res("IndexError"))
             ELSE Ret(SetPages(vf, file_name,
                               [pages EXCEPT ![PyNorm(page, n) + 1] = new_content]),
                      Res("ok"))

update_file(vf, ps, file_name, page, new_content) ==
    IF ~Has(vf, file_name) THEN Ret(vf, Res("NotFound"))
    ELSE LET pages == PagesOf(vf, file_name)
             n == Len(pages)
         IN  IF page >= n THEN Ret(vf, Res("InvalidPage"))
             ELSE IF ~PyInRange(page, n) THEN Ret(vf, Res("IndexError"))
             ELSE LET assigned == [pages EXCEPT ![PyNorm(page, n) + 1] = new_content]
                  IN  Ret(reorganize_pages(SetPages(vf, file_name, assigned), ps, file_name).vfs,
                          Res("ok"))

save_to_disk(vf, file_name, file_path) ==
    IF ~Has(vf, file_name) THEN Ret(vf, Res("NotFound"))
    ELSE LET path == IF file_path = None THEN file_name ELSE file_path
         IN  Ret(vf, [Res("ok") EXCEPT !.written =
                 <<[path |-> <<path>>, content |-> Join(PagesOf(vf, file_name))]>>])

list_files(vf) == Ret(vf, [Res("ok") EXCEPT !.names = KeysOf(vf)])

delete_file(vf, file_name) ==
    IF ~Has(vf, file_name) THEN Ret(vf, Res("NotFound"))
    ELSE Ret(Remove(vf, file_name), Res("ok"))

\* variant: the whole file is cut again after the append
append_to_file_Reorganizing(vf, ps, file_name, content) ==
    IF ~Has(vf, file_name) THEN Ret(vf, Res("NotFound"))
    ELSE Ret(SetPages(vf, file_name,
                      Paginate(Join(PagesOf(vf, file_name)) \o content, ps)),
             Res("ok"))

append_to_file(vf, ps, file_name, content) ==
    IF ~Has(vf, file_name) THEN Ret(vf, Res("NotFound"))
    ELSE Ret(SetPages(vf, file_name, PagesOf(vf, file_name) \o Paginate(content, ps)),
             Res("ok"))

\* variant: old_name is popped before new_name is looked up
rename_file_PopFirst(vf, old_name, new_name) ==
    IF ~Has(vf, old_name) THEN Ret(vf, Res("NotFound"))
    ELSE IF Has(Remove(vf, old_name), new_name)
         THEN Ret(Remove(vf, old_name), Res("AlreadyExists"))
    ELSE Ret(Rebind(vf, old_name, new_name), Res("ok"))

\* variant: vf[new_name] = vf[old_name], the old key is kept and both keys refer to
\* the same object
rename_file_Alias(vf, old_name, new_name) ==
    IF ~Has(vf, old_name) THEN Ret(vf, Res("NotFound"))
    ELSE IF Has(vf, new_name) THEN Ret(vf, Res("AlreadyExists"))
    ELSE Ret(Append(vf, [vf[IndexOf(vf, old_name)] EXCEPT !.name = new_name]), Res("ok"))

rename_file(vf, old_name, new_name) ==
    IF ~Has(vf, old_name) THEN Ret(vf, Res("NotFound"))
    ELSE IF Has(vf, new_name) THEN Ret(vf, Res("AlreadyExists"))
    ELSE Ret(Rebind(vf, old_name, new_name), Res("ok"))

\* variant: the size reported is the number of pages, len(file.pages)
get_file_info_SizeIsPageCount(vf, file_name) ==
    IF ~Has(vf, file_name) THEN Ret(vf, Res("NotFound"))
    ELSE LET pages == PagesOf(vf, file_name)
         IN  Ret(vf, [Res("info") EXCEPT !.pages = Len(pages), !.size = Len(pages)])

get_file_info(vf, file_name) ==
    IF ~Has(vf, file_name) THEN Ret(vf, Res("NotFound"))
    ELSE LET pages == PagesOf(vf, file_name)
         IN  Ret(vf, [Res("info") EXCEPT !.pages = Len(pages), !.size = SumLen(pages)])

(* --------------------------- execute_command --------------------------- *)
\* a command line after command.split(): a sequence of words; the words a caller
\* puts after the command word, and the command words themselves
Words == {"x", "0", "INCLUDE_SURROUNDING", "SURROUNDING_CHARS"}

CommandNames ==
    {"CREATE_FILE", "READ_FILE", "UPDATE_FILE", "SAVE_TO_DISK", "LIST_FILES",
     "DELETE_FILE", "APPEND_TO_FILE", "RENAME_FILE", "GET_FILE_INFO",
     "REORGANIZE_PAGES", "DUMP_ALL"}

CommandWords == CommandNames \cup {"dump_all", "bogus"}

ArgLists == UNION {[1..n -> Words] : n \in 0..MaxArgs}

Commands == {<<>>} \cup {<<c>> \o args : c \in CommandWords, args \in ArgLists}

\* str.upper() on the command words
Upper(w) ==
    IF w = "dump_all" THEN "DUMP_ALL" ELSE IF w = "bogus" THEN "BOGUS" ELSE w

\* int(w): the words that are integer literals, and their values; any other word
\* makes int() raise ValueError
IsInt(w) == w \in {"0", "1"}
IntOf(w) == IF w = "0" THEN 0 ELSE 1

\* the characters of a word
Chars(w) ==
    IF w = "INCLUDE_SURROUNDING"
    THEN <<"I", "N", "C", "L", "U", "D", "E", "_",
           "S", "U", "R", "R", "O", "U", "N", "D", "I", "N", "G">>
    ELSE IF w = "SURROUNDING_CHARS"
    THEN <<"S", "U", "R", "R", "O", "U", "N", "D", "I", "N", "G", "_",
           "C", "H", "A", "R", "S">>
    ELSE <<w>>

\* " ".join(words)
RECURSIVE JoinWords(_)
JoinWords(words) ==
    IF words = <<>> THEN <<>>
    ELSE IF Len(words) = 1 THEN Chars(words[1])
    ELSE Chars(Head(words)) \o <<" ">> \o JoinWords(Tail(words))

Contains(args, w) == \E i \in 1..Len(args) : args[i] = w

\* the first place of w in args (list.remove and the next(...) scan both stop there)
FirstIndex(args, w) ==
    CHOOSE i \in 1..Len(args) : args[i] = w /\ \A j \in 1..(i - 1) : args[j] # w

\* args without the k words from place i on
DropAt(args, i, k) == SubSeq(args, 1, i - 1) \o SubSeq(args, i + k, Len(args))

\* "Error: <command> requires at least <n> argument(s)."
MissingArguments(command_name, n) ==
    [Res("MissingArguments") EXCEPT !.names = <<command_name>>, !.size = n]

\* the READ_FILE branch: the count is tested on the words as given, then the
\* option words are taken out, then args[0] and int(args[1]) are evaluated
execute_read_file(vf, args0) ==
    IF Len(args0) < 2 THEN Ret(vf, MissingArguments("READ_FILE", 2))
    ELSE LET include_surrounding == Contains(args0, "INCLUDE_SURROUNDING")
             args1 == IF include_surrounding
                      THEN DropAt(args0, FirstIndex(args0, "INCLUDE_SURROUNDING"), 1)
                      ELSE args0
             has_value == /\ Contains(args1, "SURROUNDING_CHARS")
                          /\ FirstIndex(args1, "SURROUNDING_CHARS") < Len(args1)
             value == args1[FirstIndex(args1, "SURROUNDING_CHARS") + 1]
             args == IF has_value
                     THEN DropAt(args1, FirstIndex(args1, "SURROUNDING_CHARS"), 2)
                     ELSE args1
         IN  IF has_value /\ ~IsInt(value) THEN Ret(vf, Res("ValueError"))
             ELSE IF Len(args) < 2 THEN Ret(vf, Res("IndexError"))
             ELSE IF ~IsInt(args[2]) THEN Ret(vf, Res("ValueError"))
             ELSE read_file(vf, args[1], IntOf(args[2]), include_surrounding,
                            IF has_value THEN IntOf(value) ELSE DefaultSurroundingChars)

\* execute_command(self, command), on the words of the command line
execute_command(vf, ps, command_parts) ==
    IF command_parts = <<>> THEN Ret(vf, Res("EmptyCommand"))
    ELSE LET command_name == Upper(command_parts[1])
             args == Tail(command_parts)
         IN  IF command_name = "CREATE_FILE" THEN
                 IF Len(args) < 2 THEN Ret(vf, MissingArguments(command_name, 2))
                 ELSE create_file(vf, ps, args[1], JoinWords(Tail(args)))
             ELSE IF command_name = "READ_FILE" THEN execute_read_file(vf, args)
             ELSE IF command_name = "UPDATE_FILE" THEN
                 IF Len(args) < 3 THEN Ret(vf, MissingArguments(command_name, 3))
                 ELSE IF ~IsInt(args[2]) THEN Ret(vf, Res("ValueError"))
                 ELSE update_file(vf, ps, args[1], IntOf(args[2]),
                                  JoinWords(Tail(Tail(args))))
             ELSE IF command_name = "SAVE_TO_DISK" THEN
                 IF Len(args) < 1 THEN Ret(vf, MissingArguments(command_name, 1))
                 ELSE save_to_disk(vf, args[1], IF Len(args) > 1 THEN args[2] ELSE None)
             ELSE IF command_name = "LIST_FILES" THEN list_files(vf)
             ELSE IF command_name = "DELETE_FILE" THEN
                 IF Len(args) < 1 THEN Ret(vf, MissingArguments(command_name, 1))
                 ELSE delete_file(vf, args[1])
             ELSE IF command_name = "APPEND_TO_FILE" THEN
                 IF Len(args) < 2 THEN Ret(vf, MissingArguments(command_name, 2))
                 ELSE append_to_file(vf, ps, args[1], JoinWords(Tail(args)))
             ELSE IF command_name = "RENAME_FILE" THEN
                 IF Len(args) < 2 THEN Ret(vf, MissingArguments(command_name, 2))
                 ELSE rename_file(vf, args[1], args[2])
             ELSE IF command_name = "GET_FILE_INFO" THEN
                 IF Len(args) < 1 THEN Ret(vf, MissingArguments(command_name, 1))
                 ELSE get_file_info(vf, args[1])
             ELSE IF command_name = "REORGANIZE_PAGES" THEN
                 IF Len(args) < 1 THEN Ret(vf, MissingArguments(command_name, 1))
                 ELSE reorganize_pages(vf, ps, args[1])
             ELSE IF command_name = "DUMP_ALL" THEN
                 dump_all(vf, IF args # <<>> THEN args[1] ELSE None)
             ELSE Ret(vf, [Res("UnknownCommand") EXCEPT !.names = <<command_name>>])

(* ------------------------------ the calls ------------------------------ *)
\* the call just made: the method, its arguments, and what it gave back
Call(op) ==
    [op |-> op, file_name |-> None, page |-> 0, content |-> <<>>, new_name |-> None,
     include_surrounding |-> FALSE, surrounding_chars |-> 0, path |-> None,
     command |-> <<>>, result |-> Res("none")]

\* the characters held by the whole store stay within the model's bound, and the
\* store holds no more files than there are Names
RECURSIVE StoreSize(_)
StoreSize(vf) == IF vf = <<>> THEN 0 ELSE SumLen(Head(vf).pages) + StoreSize(Tail(vf))
Bounded(vf) == StoreSize(vf) <= MaxTotal /\ Len(vf) <= Cardinality(Names)

\* no call is in progress: the previous result has been handed to the caller
Idle == last.op = "none"

\* one call, from entry to return: the store after it and the value returned;
\* every action below makes its call only when no call is in progress
Apply(r, call) ==
    /\ Bounded(r.vfs)
    /\ virtual_files' = r.vfs
    /\ last' = [call EXCEPT !.result = r.result]
    /\ UNCHANGED page_size

\* VirtualFileSystem(page_size): an empty dict and the page size
Init ==
    /\ virtual_files = <<>>
    /\ page_size \in 1..MaxPageSize
    /\ last = Call("none")

\* the caller takes the returned value; the store is ready for the next call
Return ==
    /\ ~Idle
    /\ last' = Call("none")
    /\ UNCHANGED <<virtual_files, page_size>>

CreateFile(NS) ==
    /\ Idle
    /\ \E n \in NS, c \in Contents :
           Apply(create_file(virtual_files, page_size, n, c),
                 [Call("create_file") EXCEPT !.file_name = n, !.content = c])

ReadFile(NS) ==
    /\ Idle
    /\ \E n \in NS, p \in PageArgs, o \in SurroundOptions :
           Apply(read_file(virtual_files, n, p, o[1], o[2]),
                 [Call("read_file") EXCEPT !.file_name = n, !.page = p,
                      !.include_surrounding = o[1], !.surrounding_chars = o[2]])

UpdateFile(NS) ==
    /\ Idle
    /\ \E n \in NS, p \in PageArgs, c \in Contents :
           Apply(update_file(virtual_files, page_size, n, p, c),
                 [Call("update_file") EXCEPT !.file_name = n, !.page = p, !.content = c])

SaveToDisk(NS) ==
    /\ Idle
    /\ \E n \in NS, fp \in {None, "out"} :
           Apply(save_to_disk(virtual_files, n, fp),
                 [Call("save_to_disk") EXCEPT !.file_name = n, !.path = fp])

ListFiles == Idle /\ Apply(list_files(virtual_files), Call("list_files"))

DeleteFile(NS) ==
    /\ Idle
    /\ \E n \in NS :
           Apply(delete_file(virtual_files, n), [Call("delete_file") EXCEPT !.file_name = n])

AppendToFile(NS) ==
    /\ Idle
    /\ \E n \in NS, c \in Contents :
           Apply(append_to_file(virtual_files, page_size, n, c),
                 [Call("append_to_file") EXCEPT !.file_name = n, !.content = c])

RenameFile(NS) ==
    /\ Idle
    /\ \E o \in NS, n \in NS :
           Apply(rename_file(virtual_files, o, n),
                 [Call("rename_file") EXCEPT !.file_name = o, !.new_name = n])

GetFileInfo(NS) ==
    /\ Idle
    /\ \E n \in NS :
           Apply(get_file_info(virtual_files, n), [Call("get_file_info") EXCEPT !.file_name = n])

ReorganizePages(NS) ==
    /\ Idle
    /\ \E n \in NS :
           Apply(reorganize_pages(virtual_files, page_size, n),
                 [Call("reorganize_pages") EXCEPT !.file_name = n])

DumpAll ==
    /\ Idle
    /\ \E d \in {None, "dump"} :
           Apply(dump_all(virtual_files, d), [Call("dump_all") EXCEPT !.path = d])

ExecuteCommand ==
    /\ Idle
    /\ \E command \in Commands :
           Apply(execute_command(virtual_files, page_size, command),
                 [Call("execute_command") EXCEPT !.command = command])

\* the calls a caller can make with file names drawn from NS
Calls(NS) ==
    \/ CreateFile(NS)
    \/ ReadFile(NS)
    \/ UpdateFile(NS)
    \/ SaveToDisk(NS)
    \/ ListFiles
    \/ DeleteFile(NS)
    \/ AppendToFile(NS)
    \/ RenameFile(NS)
    \/ GetFileInfo(NS)
    \/ ReorganizePages(NS)
    \/ DumpAll

Next ==
    \/ Calls(Names)
    \/ Return

Spec == Init /\ [][Next]_vars

\* the same program, called with the wider choice of names
NextWide ==
    \/ Calls(WideNames)
    \/ Return

SpecWide == Init /\ [][NextWide]_vars

\* the same program, driven through its command interpreter only
NextCmd ==
    \/ ExecuteCommand
    \/ Return

CmdSpec == Init /\ [][NextCmd]_vars

TypeOK ==
    /\ page_size \in 1..MaxPageSize
    /\ \A i \in 1..Len(virtual_files) : virtual_files[i].name \in WideNames
    /\ \A i, j \in 1..Len(virtual_files) :
           virtual_files[i].name = virtual_files[j].name => i = j

(* ------------------------- words used by the claims -------------------- *)
Succeeded(call) == call.result.kind = "ok"
\* every page except possibly the last has length exactly ps
AllButLastFull(pages, ps) == \A i \in 1..(Len(pages) - 1) : Len(pages[i]) = ps
\* the last page, when there is one, has length at most ps
LastAtMost(pages, ps) == Len(pages) > 0 => Len(pages[Len(pages)]) <= ps
\* k = ceil(n / ps), stated without division
IsCeilDiv(k, n, ps) == k * ps >= n /\ (k = 0 \/ (k - 1) * ps < n)
\* the last k characters and the first k characters of s, for 0 <= k <= Len(s)
LastChars(s, k) == [i \in 1..k |-> s[Len(s) - k + i]]
FirstChars(s, k) == [i \in 1..k |-> s[i]]
ErrorKinds == {"NotFound", "InvalidPage", "AlreadyExists"}

(* ------------------------------- C1 ------------------------------------ *)
\* C1: create_file(name, content) on an absent name stores pages whose in-order
\* concatenation is content, every page but the last of length exactly page_size,
\* the last of length at most page_size.
C1_CreateRoundTrip ==
    (last.op = "create_file" /\ Succeeded(last)) =>
        LET pages == PagesOf(virtual_files, last.file_name)
        IN  /\ Join(pages) = last.content
            /\ AllButLastFull(pages, page_size)
            /\ LastAtMost(pages, page_size)

\* a created file whose content needs a full page and a shorter last page
C1_Witness ==
    /\ last.op = "create_file" /\ Succeeded(last)
    /\ Len(last.content) > page_size
    /\ Len(last.content) % page_size # 0
    /\ Len(PagesOf(virtual_files, last.file_name)) >= 2

(* ------------------------------- C2 ------------------------------------ *)
\* C2 as stated: after create_file the page count is ceil(len(content)/page_size),
\* except that empty content gives exactly one empty page, so that read_file(name, 0)
\* on it returns the empty string and get_file_info reports 1 page.
C2_OnePageForEmpty ==
    /\ (last.op = "create_file" /\ Succeeded(last)) =>
           LET k == Len(PagesOf(virtual_files, last.file_name))
           IN  IF last.content = <<>> THEN k = 1
               ELSE IsCeilDiv(k, Len(last.content), page_size)
    /\ (/\ last.op = "read_file" /\ last.page = 0
        /\ Has(virtual_files, last.file_name)
        /\ Join(PagesOf(virtual_files, last.file_name)) = <<>>) =>
           (last.result.kind = "text" /\ last.result.text = <<>>)

\* C2 amended: after create_file the page count is ceil(len(content)/page_size) for
\* every content, which is 0 for empty content: the file has no page, read_file(name, 0)
\* on a file without content returns InvalidPage and get_file_info reports 0 pages.
C2_PageCount ==
    /\ (last.op = "create_file" /\ Succeeded(last)) =>
           IsCeilDiv(Len(PagesOf(virtual_files, last.file_name)),
                     Len(last.content), page_size)
    /\ (/\ last.op = "read_file" /\ last.page = 0
        /\ Has(virtual_files, last.file_name)
        /\ Join(PagesOf(virtual_files, last.file_name)) = <<>>) =>
           last.result.kind = "InvalidPage"
    /\ (/\ last.op = "get_file_info"
        /\ Has(virtual_files, last.file_name)
        /\ Join(PagesOf(virtual_files, last.file_name)) = <<>>) =>
           (last.result.kind = "info" /\ last.result.pages = 0)

\* a file just created with empty content: it has no page
C2_Witness ==
    /\ last.op = "create_file" /\ Succeeded(last)
    /\ last.content = <<>>
    /\ PagesOf(virtual_files, last.file_name) = <<>>

(* ------------------------------- C3 ------------------------------------ *)
\* C3: update_file(name, page_index, new_content) with 0 <= page_index < page count
\* leaves a file whose concatenation is the old pages with that page replaced by
\* new_content, every page but the last of length exactly page_size.
C3_UpdateStep ==
    (/\ last'.op = "update_file"
     /\ Has(virtual_files, last'.file_name)
     /\ last'.page >= 0
     /\ last'.page < Len(PagesOf(virtual_files, last'.file_name))) =>
        LET old == PagesOf(virtual_files, last'.file_name)
            new == PagesOf(virtual_files', last'.file_name)
        IN  /\ Has(virtual_files', last'.file_name)
            /\ Join(new) = Join([old EXCEPT ![last'.page + 1] = last'.content])
            /\ AllButLastFull(new, page_size)

C3_UpdateReplacesPage == [][C3_UpdateStep]_vars

\* an update with content longer than a page, leaving at least two pages
C3_Witness ==
    /\ last.op = "update_file" /\ Succeeded(last)
    /\ last.page >= 0
    /\ Len(last.content) > page_size
    /\ Len(PagesOf(virtual_files, last.file_name)) >= 2

(* ------------------------------- C4 ------------------------------------ *)
\* C4: append_to_file(name, content) on an existing file keeps every old page
\* unchanged and in place, adds after them the pages of content cut at page_size
\* (no reorganizing), and the new concatenation is the old one followed by content.
C4_AppendStep ==
    (last'.op = "append_to_file" /\ Has(virtual_files, last'.file_name)) =>
        LET old == PagesOf(virtual_files, last'.file_name)
            new == PagesOf(virtual_files', last'.file_name)
            added == SubSeq(new, Len(old) + 1, Len(new))
        IN  /\ Has(virtual_files', last'.file_name)
            /\ Len(new) >= Len(old)
            /\ SubSeq(new, 1, Len(old)) = old
            /\ Join(added) = last'.content
            /\ AllButLastFull(added, page_size)
            /\ \A i \in 1..Len(added) : Len(added[i]) <= page_size
            /\ Join(new) = Join(old) \o last'.content

C4_AppendKeepsPages == [][C4_AppendStep]_vars

\* an append after a short last page: the file stays fragmented
C4_Witness ==
    /\ last.op = "append_to_file" /\ Succeeded(last)
    /\ last.content # <<>>
    /\ ~AllButLastFull(PagesOf(virtual_files, last.file_name), page_size)

(* ------------------------------- C5 ------------------------------------ *)
\* C5: read_file(name, page_index, include_surrounding=True, surrounding_chars) on a
\* valid page returns the last min(surrounding_chars, len(previous page)) characters of
\* the previous page (none for page 0), then the page, then the first
\* min(surrounding_chars, len(next page)) characters of the next page (none for the
\* last page); without include_surrounding it returns the page.
C5_Surrounding ==
    (/\ last.op = "read_file"
     /\ Has(virtual_files, last.file_name)
     /\ last.page >= 0
     /\ last.page < Len(PagesOf(virtual_files, last.file_name))) =>
        LET pages == PagesOf(virtual_files, last.file_name)
            i == last.page + 1
            prev == IF i = 1 THEN <<>> ELSE pages[i - 1]
            next == IF i = Len(pages) THEN <<>> ELSE pages[i + 1]
            sc == last.surrounding_chars
        IN  /\ last.result.kind = "text"
            /\ last.result.text =
                   IF last.include_surrounding
                   THEN LastChars(prev, Min(sc, Len(prev))) \o pages[i]
                            \o FirstChars(next, Min(sc, Len(next)))
                   ELSE pages[i]

(* ------------------------------- C6 ------------------------------------ *)
\* C6: create_file on a present name returns AlreadyExists and leaves the file's
\* pages unmodified; rename_file(old, new) of a present old to a present new (old = new
\* included) returns AlreadyExists and leaves the whole mapping unmodified.
C6_CollisionStep ==
    /\ (last'.op = "create_file" /\ Has(virtual_files, last'.file_name)) =>
           /\ last'.result.kind = "AlreadyExists"
           /\ Has(virtual_files', last'.file_name)
           /\ PagesOf(virtual_files', last'.file_name)
                  = PagesOf(virtual_files, last'.file_name)
    /\ (/\ last'.op = "rename_file"
        /\ Has(virtual_files, last'.file_name)
        /\ Has(virtual_files, last'.new_name)) =>
           /\ last'.result.kind = "AlreadyExists"
           /\ virtual_files' = virtual_files

C6_NameCollision == [][C6_CollisionStep]_vars

\* a create_file that was refused while the named file holds content
C6_Witness ==
    /\ last.op = "create_file"
    /\ last.result.kind = "AlreadyExists"
    /\ Has(virtual_files, last.file_name)
    /\ PagesOf(virtual_files, last.file_name) # <<>>
    /\ Join(PagesOf(virtual_files, last.file_name)) # last.content

(* ------------------------------- C7 ------------------------------------ *)
\* C7: read_file and update_file with a page index outside 0..page_count-1 (negative
\* indices included) return InvalidPage; update_file then changes no page of any file
\* and read_file returns no page text.
C7_OutOfRangeStep ==
    (/\ last'.op \in {"read_file", "update_file"}
     /\ Has(virtual_files, last'.file_name)
     /\ last'.page \notin 0..(Len(PagesOf(virtual_files, last'.file_name)) - 1)) =>
        /\ last'.result.kind = "InvalidPage"
        /\ last'.result.text = <<>>
        /\ virtual_files' = virtual_files

C7_InvalidPage == [][C7_OutOfRangeStep]_vars

(* ------------------------------- C8 ------------------------------------ *)
\* C8: every operation that returns NotFound, InvalidPage or AlreadyExists leaves the
\* set of names and every file's page sequence as they were before the call.
C8_ErrorStep == last'.result.kind \in ErrorKinds => virtual_files' = virtual_files

C8_ErrorsChangeNothing == [][C8_ErrorStep]_vars

\* a rename refused for a collision between two different files
C8_Witness ==
    /\ last.op = "rename_file"
    /\ last.result.kind = "AlreadyExists"
    /\ last.file_name # last.new_name
    /\ Len(virtual_files) = 2

(* ------------------------------- C9 ------------------------------------ *)
\* C9: reorganize_pages(name) on an existing file, in any reachable state, leaves the
\* concatenation of its pages unchanged and every page but the last of length
\* exactly page_size.
C9_ReorganizeStep ==
    (last'.op = "reorganize_pages" /\ Has(virtual_files, last'.file_name)) =>
        LET old == PagesOf(virtual_files, last'.file_name)
            new == PagesOf(virtual_files', last'.file_name)
        IN  /\ Has(virtual_files', last'.file_name)
            /\ Join(new) = Join(old)
            /\ AllButLastFull(new, page_size)

C9_ReorganizeKeepsContent == [][C9_ReorganizeStep]_vars

\* a reorganized file of several pages
C9_Witness ==
    /\ last.op = "reorganize_pages" /\ Succeeded(last)
    /\ Len(PagesOf(virtual_files, last.file_name)) >= 2

(* ------------------------------- C10 ----------------------------------- *)
\* C10: reorganize_pages is idempotent: right after reorganize_pages(name), calling
\* it again gives the page sequence the first call left.
C10_ReorganizeIdempotent ==
    (last.op = "reorganize_pages" /\ Succeeded(last)) =>
        /\ reorganize_pages(virtual_files, page_size, last.file_name).result.kind = "ok"
        /\ reorganize_pages(virtual_files, page_size, last.file_name).vfs = virtual_files

\* a reorganized file whose last page is short, beside another file
C10_Witness ==
    /\ last.op = "reorganize_pages" /\ Succeeded(last)
    /\ Len(virtual_files) = 2
    /\ LET pages == PagesOf(virtual_files, last.file_name)
       IN  Len(pages) >= 2 /\ Len(pages[Len(pages)]) < page_size

(* ------------------------------- C11 ----------------------------------- *)
\* operations that look their file_name up and answer NotFound when it is absent
LookupOps ==
    {"read_file", "update_file", "save_to_disk", "delete_file", "append_to_file",
     "rename_file", "get_file_info", "reorganize_pages"}

\* no two keys refer to the same VirtualFile object
NoAlias(vf) == \A i, j \in 1..Len(vf) : vf[i].obj = vf[j].obj => i = j

\* C11: a successful rename_file(old, new) makes new resolve to the pages old had and
\* old no longer resolve; an absent name answers NotFound to every operation and
\* becomes present only by create_file or by being renamed to; no two names are backed
\* by the same file, and update_file or append_to_file through one name never changes
\* the pages seen through another name.
C11_RenameStep ==
    /\ (/\ last'.op = "rename_file"
        /\ Has(virtual_files, last'.file_name)
        /\ ~Has(virtual_files, last'.new_name)) =>
           /\ Succeeded(last')
           /\ Has(virtual_files', last'.new_name)
           /\ PagesOf(virtual_files', last'.new_name)
                  = PagesOf(virtual_files, last'.file_name)
           /\ ~Has(virtual_files', last'.file_name)
    /\ (last'.op \in LookupOps /\ ~Has(virtual_files, last'.file_name)) =>
           last'.result.kind = "NotFound"
    /\ \A n \in WideNames :
           (~Has(virtual_files, n) /\ Has(virtual_files', n)) =>
               \/ last'.op = "create_file" /\ last'.file_name = n
               \/ last'.op = "rename_file" /\ last'.new_name = n
    /\ NoAlias(virtual_files')
    /\ last'.op \in {"update_file", "append_to_file"} =>
           \A m \in WideNames :
               (m # last'.file_name /\ Has(virtual_files, m)) =>
                   /\ Has(virtual_files', m)
                   /\ PagesOf(virtual_files', m) = PagesOf(virtual_files, m)

C11_RenameTransfers == [][C11_RenameStep]_vars

\* a file with content just renamed, beside another file
C11_Witness ==
    /\ last.op = "rename_file" /\ Succeeded(last)
    /\ Len(virtual_files) = 2
    /\ PagesOf(virtual_files, last.new_name) # <<>>
    /\ ~Has(virtual_files, last.file_name)

(* ------------------------------- C12 ----------------------------------- *)
\* the sequence s without its element x
Without(s, x) == SelectSeq(s, LAMBDA y : y # x)

\* dump_all emitted one (name, content) pair for every managed file and no other
\* pair, each content the concatenation of the file's pages
DumpComplete ==
    (last.op = "dump_all" /\ Succeeded(last)) =>
        LET w == last.result.written
        IN  /\ \A n \in WideNames :
                   Cardinality({i \in 1..Len(w) : w[i].path[2] = n})
                       = IF Has(virtual_files, n) THEN 1 ELSE 0
            /\ \A i \in 1..Len(w) :
                   /\ w[i].path[1] = last.path
                   /\ Has(virtual_files, w[i].path[2])
                       => w[i].content = Join(PagesOf(virtual_files, w[i].path[2]))

\* C12 as stated: dump_all emits exactly one (name, content) pair for every managed
\* file, content being the concatenation of its pages, and the pairs come in name
\* order, not in creation or rename order.
C12_NameOrder ==
    /\ DumpComplete
    /\ (last.op = "dump_all" /\ Succeeded(last)) =>
           LET w == last.result.written
           IN  \A i, j \in 1..Len(w) :
                   i < j => NameRank(w[i].path[2]) < NameRank(w[j].path[2])

\* C12 amended: dump_all emits exactly one (name, content) pair for every managed
\* file, content being the concatenation of its pages, and the pairs come in the
\* order in which the names entered the mapping: create_file and a successful
\* rename_file put their name last, delete_file and rename_file take a name out, and
\* nothing else changes the order.
C12_DumpStep ==
    /\ DumpComplete'
    /\ (last'.op = "dump_all" /\ Succeeded(last')) =>
           LET w == last'.result.written
           IN  /\ Len(w) = Len(virtual_files)
               /\ \A i \in 1..Len(w) : w[i].path[2] = KeysOf(virtual_files)[i]
    /\ KeysOf(virtual_files') =
           IF last'.op = "create_file" /\ Succeeded(last')
           THEN Append(KeysOf(virtual_files), last'.file_name)
           ELSE IF last'.op = "rename_file" /\ Succeeded(last')
           THEN Append(Without(KeysOf(virtual_files), last'.file_name), last'.new_name)
           ELSE IF last'.op = "delete_file" /\ Succeeded(last')
           THEN Without(KeysOf(virtual_files), last'.file_name)
           ELSE KeysOf(virtual_files)

C12_DumpInsertionOrder == [][C12_DumpStep]_vars

\* a dump of two files whose insertion order is not their name order
C12_Witness ==
    /\ last.op = "dump_all" /\ Succeeded(last)
    /\ Len(last.result.written) = 2
    /\ NameRank(last.result.written[1].path[2]) > NameRank(last.result.written[2].path[2])
    /\ last.result.written[1].content # <<>>

(* ------------------------------- C13 ----------------------------------- *)
\* the scenario of the specification, page_size = 10:
\* create_file("a.txt", "0123456789ABCDE"), update_file("a.txt", 0, "XY"),
\* get_file_info("a.txt")
ScenarioContent ==
    <<"0", "1", "2", "3", "4", "5", "6", "7", "8", "9", "A", "B", "C", "D", "E">>
ScenarioCreated == create_file(<<>>, 10, "a.txt", ScenarioContent).vfs
ScenarioUpdated ==
    update_file(ScenarioCreated, 10, "a.txt", 0, <<"X", "Y">>).vfs
ScenarioInfo == get_file_info(ScenarioUpdated, "a.txt").result

\* C13: get_file_info(name) on an existing file reports the file's current number of
\* pages and, as total size, the length of the concatenation of its pages; in the
\* scenario it reports 1 page and 7 characters.
C13_FileInfo ==
    /\ (last.op = "get_file_info" /\ Has(virtual_files, last.file_name)) =>
           /\ last.result.kind = "info"
           /\ last.result.pages = Len(PagesOf(virtual_files, last.file_name))
           /\ last.result.size = Len(Join(PagesOf(virtual_files, last.file_name)))
    /\ Len(PagesOf(ScenarioCreated, "a.txt")) = 2
    /\ ScenarioInfo.kind = "info"
    /\ ScenarioInfo.pages = 1
    /\ ScenarioInfo.size = 7

\* the info of a fragmented file: more pages than its size needs
C13_Witness ==
    /\ last.op = "get_file_info"
    /\ last.result.kind = "info"
    /\ last.result.pages >= 2
    /\ last.result.size > last.result.pages
    /\ ~AllButLastFull(PagesOf(virtual_files, last.file_name), page_size)

(* ------------------------------- C14 ----------------------------------- *)
\* C14: between operations every page of every managed file has length at most
\* page_size; a longer page written by update_file is gone when update_file returns.
C14_PagesWithinPageSize ==
    \A i \in 1..Len(virtual_files) :
        \A k \in 1..Len(virtual_files[i].pages) :
            Len(virtual_files[i].pages[k]) <= page_size

\* an update whose new content was longer than a page, in a store of two files
C14_Witness ==
    /\ last.op = "update_file" /\ Succeeded(last)
    /\ Len(last.content) > page_size
    /\ Len(virtual_files) = 2

(* ------------------------------- C15 ----------------------------------- *)
\* C15: read_file (with or without include_surrounding), get_file_info and list_files
\* change neither the set of names nor any file's page sequence.
C15_ReadOnlyStep ==
    last'.op \in {"read_file", "get_file_info", "list_files"} =>
        virtual_files' = virtual_files

C15_ReadsChangeNothing == [][C15_ReadOnlyStep]_vars

\* a read that returned more than the page: text from the neighbouring pages
C15_Witness ==
    /\ last.op = "read_file"
    /\ last.result.kind = "text"
    /\ last.include_surrounding
    /\ last.page >= 0
    /\ Len(last.result.text)
           > Len(PagesOf(virtual_files, last.file_name)[last.page + 1])

(* ------------------------------- C18 ----------------------------------- *)
\* the names of the store, as a set
NameSet(vf) == {vf[i].name : i \in 1..Len(vf)}

\* C18: a successful create_file, update_file, append_to_file, reorganize_pages or
\* delete_file on n leaves the pages of every other managed file unchanged and
\* changes the set of names only by adding n (create_file) or removing n
\* (delete_file); a successful rename_file(old, new) leaves every file other than
\* old and new unchanged.
C18_FrameStep ==
    /\ (/\ last'.op \in {"create_file", "update_file", "append_to_file",
                         "reorganize_pages", "delete_file"}
        /\ Succeeded(last')) =>
           /\ \A m \in NameSet(virtual_files) \ {last'.file_name} :
                  /\ Has(virtual_files', m)
                  /\ PagesOf(virtual_files', m) = PagesOf(virtual_files, m)
           /\ NameSet(virtual_files') =
                  IF last'.op = "create_file"
                  THEN NameSet(virtual_files) \cup {last'.file_name}
                  ELSE IF last'.op = "delete_file"
                  THEN NameSet(virtual_files) \ {last'.file_name}
                  ELSE NameSet(virtual_files)
    /\ (last'.op = "rename_file" /\ Succeeded(last')) =>
           /\ \A m \in NameSet(virtual_files) \ {last'.file_name, last'.new_name} :
                  /\ Has(virtual_files', m)
                  /\ PagesOf(virtual_files', m) = PagesOf(virtual_files, m)
           /\ NameSet(virtual_files') \ {last'.file_name, last'.new_name}
                  = NameSet(virtual_files) \ {last'.file_name, last'.new_name}

C18_OthersUntouched == [][C18_FrameStep]_vars

\* a reorganize_pages beside another file that is still fragmented
C18_Witness ==
    /\ last.op = "reorganize_pages" /\ Succeeded(last)
    /\ \E m \in NameSet(virtual_files) \ {last.file_name} :
           ~AllButLastFull(PagesOf(virtual_files, m), page_size)

(* ------------------------------- C19 ----------------------------------- *)
\* C19: between operations no managed file stores an empty page: every page has
\* length between 1 and page_size, so a file whose content is empty has no page.
C19_NoEmptyPage ==
    \A i \in 1..Len(virtual_files) :
        LET pages == virtual_files[i].pages
        IN  /\ \A k \in 1..Len(pages) : Len(pages[k]) >= 1 /\ Len(pages[k]) <= page_size
            /\ Join(pages) = <<>> => pages = <<>>

\* a file emptied by update_file: its only page replaced by the empty string
C19_Witness ==
    /\ last.op = "update_file" /\ Succeeded(last)
    /\ last.content = <<>>
    /\ PagesOf(virtual_files, last.file_name) = <<>>

(* ------------------------------- C16 ----------------------------------- *)
\* the exceptions a call can end with instead of returning a string
Raised == {"IndexError", "ValueError", "TypeError"}

\* the words of a READ_FILE line that are left for the name and the page once
\* INCLUDE_SURROUNDING and SURROUNDING_CHARS <n> have been taken out
Positional(args) ==
    LET a == IF Contains(args, "INCLUDE_SURROUNDING")
             THEN DropAt(args, FirstIndex(args, "INCLUDE_SURROUNDING"), 1) ELSE args
    IN  IF Contains(a, "SURROUNDING_CHARS") /\ FirstIndex(a, "SURROUNDING_CHARS") < Len(a)
        THEN DropAt(a, FirstIndex(a, "SURROUNDING_CHARS"), 2) ELSE a

\* C16: execute_command returns a string for every command line and raises nothing:
\* READ_FILE whose name or page is missing once the option words are removed returns
\* the error naming READ_FILE and its minimum of 2 arguments, and a page index that is
\* not an integer returns an InvalidArgument error.
C16_NeverRaises ==
    (last.op = "execute_command" /\ last.command # <<>>) =>
        LET command_name == Upper(last.command[1])
            args == Tail(last.command)
        IN  /\ last.result.kind \notin Raised
            /\ (command_name = "READ_FILE" /\ Len(Positional(args)) < 2) =>
                   last.result = MissingArguments("READ_FILE", 2)
            /\ (/\ command_name = "READ_FILE"
                /\ Len(Positional(args)) >= 2
                /\ ~IsInt(Positional(args)[2])) =>
                   last.result.kind = "InvalidArgument"
            /\ (command_name = "UPDATE_FILE" /\ Len(args) >= 3 /\ ~IsInt(args[2])) =>
                   last.result.kind = "InvalidArgument"

(* ------------------------------- C17 ----------------------------------- *)
\* C17: DUMP_ALL given without a directory writes every managed file under "dump" and
\* returns the success string, exactly as dump_all() with its default argument does.
C17_DumpAllDefault ==
    (/\ last.op = "execute_command"
     /\ Len(last.command) = 1
     /\ Upper(last.command[1]) = "DUMP_ALL") =>
        last.result = dump_all(virtual_files, "dump").result

====
